---- MODULE Spec2Model ----
(***************************************************************************)
(* Resto Supply Hub chatbot backend (restosupplyhub/store-gpt).            *)
(*                                                                         *)
(* The repository holds several stand-alone variants of one server.  Each  *)
(* behaviour of this model is one process running one of them:             *)
(*   "md"       src/server.js 1-173     catalogLines, Markdown bullets      *)
(*   "single"   src/server.js 175-236   single-turn /chat, no catalog       *)
(*   "html"     src/server.js 238-410   catalogLines, HTML-output prompt    *)
(*   "deepseek" src/unnamed/part_000    catalogHtml, DeepSeek only          *)
(*   "openai"   src/api/chat.js 1-33    serverless handler, no catalog      *)
(*   "export"   src/api/chat.js 35-91   one-shot catalog export script      *)
(* JavaScript runs each handler to its next await without interruption, so *)
(* an action is the code between two suspension points.                    *)
(*                                                                         *)
(* /chat requests share nothing but the caches they read, so the model     *)
(* follows one request at a time: `chat` is an arbitrary request, and a    *)
(* new one may arrive once the response to the previous one was sent.      *)
(***************************************************************************)
EXTENDS Integers, Sequences, FiniteSets, TLC

VARIABLES
    variant,        \* which program this process runs
    SHOPIFY_TOKEN,  \* TRUE when process.env.SHOPIFY_STOREFRONT_TOKEN is set
    SHOPIFY_DOMAIN, \* TRUE when process.env.SHOPIFY_DOMAIN is set
    API_KEY,        \* TRUE when the completion provider's key is set
    booted,         \* the module's top-level initialization has run
    alive,          \* the process has not been ended by an unhandled rejection
    storeInfo,      \* the store facts cache
    catalogLines,   \* the catalog cache of "md" and "html"
    catalogHtml,    \* the catalog cache of "deepseek"
    catalogFile,    \* catalog.json as written by "export"
    runs,           \* the catalog fetch runs, by number
    nruns,          \* how many runs were started
    pageRequests,   \* how many catalog page requests were issued in all
    lastDone,       \* the last run that completed: what the provider sent it
    chat            \* the /chat request being followed

vars == <<variant, SHOPIFY_TOKEN, SHOPIFY_DOMAIN, API_KEY, booted, alive,
          storeInfo, catalogLines, catalogHtml, catalogFile, runs, nruns,
          pageRequests, lastDone, chat>>

(* ------------------------------ bounds --------------------------------- *)

\* Runs started in one behaviour (the startup run and the timer's runs) and
\* catalog page requests issued in one behaviour over all runs, when the
\* whole program is explored (Spec).
MaxRuns == 2
MaxPageRequests == 2

\* The same two bounds when the catalog sync is explored alone (SpecSync).
SyncRuns == 2
SyncPageRequests == 3

\* The same two bounds when the sync is explored with a fair provider
\* (SpecSyncFair).
FairRuns == 2
FairPageRequests == 2

\* Product edges in one page response (the code asks for up to PAGE).
MaxEdges == 2

\* Messages in one request's conversation history.
MaxHist == 2

(* ----------------------------- universe -------------------------------- *)

Variants == {"md", "single", "html", "deepseek", "openai", "export"}

\* Variants that keep a catalog cache refreshed by a timer.
CacheVariants == {"md", "html", "deepseek"}

\* Two products: "cup" has a first variant with a price, "lid" has none.
Products == {"cup", "lid"}

HasVariant(p) == p = "cup"

RunIds == 1..(IF SyncRuns > MaxRuns THEN SyncRuns ELSE MaxRuns)

Range(s) == {s[i] : i \in DOMAIN s}

\* Sequences of distinct elements of S, of length 0..n.
RECURSIVE DistinctSeqs(_, _)
DistinctSeqs(S, n) ==
    IF n = 0 THEN {<<>>}
    ELSE LET shorter == DistinctSeqs(S, n - 1)
         IN  shorter \cup UNION {{Append(s, x) : x \in S \ Range(s)} :
                                     s \in {t \in shorter : Len(t) = n - 1}}

(* ------------------------ catalog page protocol ------------------------ *)

\* An edge of the provider's response: its cursor and its node.  The node's
\* title and handle are the product's name; its first variant may be absent.
Edge(p) == [cursor |-> p, node |-> p]

\* What the catalog provider can answer to one page request: a page (a
\* product appears at most once in a page), a
\* network failure (fetch or res.json() throws), or an error payload that
\* has no data.products.
PageAnswers ==
    [kind : {"page"}, edges : DistinctSeqs(Products, MaxEdges), hasNextPage : BOOLEAN]
    \cup [kind : {"throw", "errorPayload"}, edges : {<<>>}, hasNextPage : {FALSE}]

\* The price text of a node in the server variants.
PriceText(p) == IF HasVariant(p) THEN "amount currencyCode" ELSE "-"

\* The price of a node in the export script.
PriceOrNA(p) == IF HasVariant(p) THEN "amount" ELSE "NA"

\* One catalog entry as the variant renders it: a Markdown bullet, an <li>
\* element, or a digest object.
RenderEdge(v, p) ==
    IF v = "deepseek" THEN [k |-> "li", title |-> p, url |-> p, price |-> PriceText(p)]
    ELSE IF v = "export" THEN [k |-> "digest", title |-> p, url |-> p, price |-> PriceOrNA(p)]
    ELSE [k |-> "bullet", title |-> p, url |-> p, price |-> PriceText(p)]

\* edges.forEach(... out.push(...)): the accumulator after one page.
RECURSIVE PushEdges(_, _, _)
PushEdges(v, out, edges) ==
    IF edges = <<>> THEN out
    ELSE PushEdges(v, Append(out, RenderEdge(v, Head(edges))), Tail(edges))

\* The markup around the list in catalogHtml.
OlOpen == [k |-> "ol-open", title |-> "", url |-> "", price |-> ""]
OlClose == [k |-> "ol-close", title |-> "", url |-> "", price |-> ""]

\* The value a completed run assigns to its cache.
PublishedValue(v, out) ==
    IF v = "deepseek" THEN <<OlOpen>> \o out \o <<OlClose>> ELSE out

\* The cache after a page when the accumulator is published page by page.
CacheAfterPageEarly(v, cache, out, hasNextPage) == PublishedValue(v, out)

\* The cache a run leaves behind after a page: the cache is assigned only
\* after the loop, when the page's hasNextPage is false.
CacheAfterPage(v, cache, out, hasNextPage) ==
    IF hasNextPage THEN cache ELSE PublishedValue(v, out)

\* The guard with its two tests joined by "and": one setting is enough.
ShopifyConfiguredEither(token, domain) == ~(~token /\ ~domain)

\* The guard that opens fetchCatalog / buildCatalogHtml.
ShopifyConfigured(token, domain) == ~(~token \/ ~domain)

\* The cache of the running variant.
PublishedCache == IF variant = "deepseek" THEN catalogHtml ELSE catalogLines

NoRun == [st |-> "idle", trigger |-> "none", out |-> <<>>, seen |-> <<>>,
          after |-> "null", reqs |-> 0, pages |-> 0, fault |-> "none",
          startCache |-> <<>>, flag |-> "none"]

InFlight(r) == runs[r].st = "awaiting"

\* The accumulator of every call in one list, as a module-level `out` is.
RECURSIVE OutsFrom(_)
OutsFrom(r) == IF r \notin RunIds THEN <<>> ELSE runs[r].out \o OutsFrom(r + 1)
SharedOut(r) == OutsFrom(1)

\* The accumulator of run r: `const out = []` is a local of the call.
OwnOut(r) == runs[r].out

\* The loop goes round for ever: the test before `break` never succeeds.
LoopContinuesAlways(hasNextPage) == TRUE

\* `if (!hasNextPage) break;`: the loop goes on to the next page request
\* when the response's flag is true.
LoopContinues(hasNextPage) == hasNextPage

(* --------------------------- catalog fetch ----------------------------- *)

\* A call of fetchCatalog / buildCatalogHtml up to its first await: the
\* configuration guard, then the first page request with a null cursor.
\* The export script has no guard.
StartRun(r, trig) ==
    IF variant # "export" /\ ~ShopifyConfigured(SHOPIFY_TOKEN, SHOPIFY_DOMAIN)
    THEN /\ runs' = [runs EXCEPT ![r] = [NoRun EXCEPT !.st = "skipped", !.trigger = trig,
                                                      !.startCache = PublishedCache]]
         /\ pageRequests' = pageRequests
    ELSE /\ runs' = [runs EXCEPT ![r] = [NoRun EXCEPT !.st = "awaiting", !.trigger = trig,
                                                      !.reqs = 1,
                                                      !.startCache = PublishedCache]]
         /\ pageRequests' = pageRequests + 1

\* loadStoreInfo: the file parses, or storeInfo is reset to {}.
loadStoreInfo == storeInfo' \in {"facts", "empty"}

\* Top-level initialization: loadStoreInfo(); fetchCatalog().catch(...);
\* setInterval(fetchCatalog, 6 h).  The variants without a catalog only
\* start listening; the export script goes straight into its loop.
Boot(maxRequests) ==
    /\ ~booted /\ alive
    /\ booted' = TRUE
    /\ IF variant \in CacheVariants
       THEN /\ loadStoreInfo
            /\ pageRequests < maxRequests
            /\ StartRun(1, "startup")
            /\ nruns' = 1
       ELSE IF variant = "export"
       THEN /\ pageRequests < maxRequests
            /\ StartRun(1, "script")
            /\ nruns' = 1
            /\ UNCHANGED storeInfo
       ELSE UNCHANGED <<storeInfo, runs, nruns, pageRequests>>
    /\ UNCHANGED <<variant, SHOPIFY_TOKEN, SHOPIFY_DOMAIN, API_KEY, alive,
                   catalogLines, catalogHtml, catalogFile, lastDone, chat>>

\* The 6-hour timer fires: setInterval calls the fetch function again,
\* whatever the state of the earlier runs.
TimerFires(maxRuns, maxRequests) ==
    /\ booted /\ alive
    /\ variant \in CacheVariants
    /\ nruns < maxRuns
    /\ pageRequests < maxRequests
    /\ StartRun(nruns + 1, "timer")
    /\ nruns' = nruns + 1
    /\ UNCHANGED <<variant, SHOPIFY_TOKEN, SHOPIFY_DOMAIN, API_KEY, booted, alive,
                   storeInfo, catalogLines, catalogHtml, catalogFile, lastDone, chat>>

\* Assignment to the variant's catalog cache.
SetCache(val) ==
    IF variant = "deepseek"
    THEN catalogHtml' = val /\ UNCHANGED catalogLines
    ELSE catalogLines' = val /\ UNCHANGED catalogHtml

\* What a rejected run does to the process: the startup run's rejection is
\* caught and logged; the export script's rejection ends the script; a timer
\* run's rejection is unhandled, which ends the process or is only reported,
\* depending on the Node.js version and flags.
AliveAfterRejection(trig) ==
    IF trig = "startup" THEN {TRUE}
    ELSE IF trig = "script" THEN {FALSE}
    ELSE BOOLEAN

\* The record of a run that has ended: its locals are gone.
Ended(run, st, fault) ==
    [run EXCEPT !.st = st, !.fault = fault, !.out = <<>>, !.seen = <<>>,
                !.after = "null", !.startCache = <<>>]

\* The provider answers the page request run r is waiting for; the run goes
\* on to its next await or to its end.
PageAnswer(r, ans, maxRequests) ==
    /\ alive /\ InFlight(r)
    /\ IF ans.kind # "page"
       THEN \* fetch / res.json() throws, or json.data.products is undefined
            /\ runs' = [runs EXCEPT ![r] =
                          Ended(runs[r], "failed",
                                IF ans.kind = "throw" THEN "network"
                                ELSE "TypeError: json.data.products")]
            /\ alive' \in AliveAfterRejection(runs[r].trigger)
            /\ UNCHANGED <<catalogLines, catalogHtml, catalogFile, pageRequests, lastDone>>
       ELSE LET out == PushEdges(variant, OwnOut(r), ans.edges)
                got == [runs[r] EXCEPT !.out = out,
                                       !.seen = runs[r].seen \o ans.edges,
                                       !.pages = runs[r].pages + 1,
                                       !.flag = IF ans.hasNextPage THEN "true"
                                                ELSE "false"]
                more == LoopContinues(ans.hasNextPage)
                \* edges.at(-1) is undefined on an empty page: .cursor throws
                threw == more /\ ans.edges = <<>>
            IN  /\ (more /\ ~threw) => pageRequests < maxRequests
                /\ runs' = [runs EXCEPT ![r] =
                              IF ~more THEN Ended(got, "done", "none")
                              ELSE IF threw
                              THEN Ended(got, "failed", "TypeError: edges.at(-1).cursor")
                              ELSE [got EXCEPT !.after = Edge(ans.edges[Len(ans.edges)]).cursor,
                                               !.reqs = runs[r].reqs + 1]]
                /\ pageRequests' = IF more /\ ~threw THEN pageRequests + 1 ELSE pageRequests
                /\ lastDone' = IF more THEN lastDone
                               ELSE [run |-> r, seen |-> got.seen, pages |-> got.pages,
                                     reqs |-> got.reqs]
                /\ IF threw THEN alive' \in AliveAfterRejection(runs[r].trigger)
                   ELSE alive' = alive
                /\ IF variant = "export"
                   THEN /\ catalogFile' = IF more THEN catalogFile
                                          ELSE [written |-> TRUE, content |-> out]
                        /\ UNCHANGED <<catalogLines, catalogHtml>>
                   ELSE /\ SetCache(CacheAfterPage(variant, PublishedCache, out, more))
                        /\ UNCHANGED catalogFile
    /\ UNCHANGED <<variant, SHOPIFY_TOKEN, SHOPIFY_DOMAIN, API_KEY, booted,
                   storeInfo, nruns, chat>>

(* ------------------------------- /chat -------------------------------- *)

ChatVariants == {"md", "single", "html", "deepseek", "openai"}

\* Variants whose /chat takes the conversation history.
HistoryVariants == {"md", "html", "deepseek"}

\* A piece of message text.  Catalog entries are pieces too.
Text(t) == [k |-> "text", title |-> t, url |-> "", price |-> ""]

Msg(role, name, content) == [role |-> role, name |-> name, content |-> content]

\* The i-th message of the caller's conversation, oldest first.
HistMsg(i) ==
    Msg(IF i % 2 = 1 THEN "user" ELSE "assistant", "", <<Text(ToString(i))>>)

Conv(n) == [i \in 1..n |-> HistMsg(i)]

\* Request bodies.  `shape` is what req.body.messages is: undefined, a
\* non-array, or an array; `message` is req.body.message: undefined, the
\* empty string, or a text.
Body(method, shape, messages, message) ==
    [method |-> method, shape |-> shape, messages |-> messages, message |-> message]

Bodies(v) ==
    IF v \in HistoryVariants
    THEN {Body("POST", "undefined", <<>>, "undefined"), Body("POST", "notArray", <<>>, "undefined")}
         \cup {Body("POST", "array", Conv(n), "undefined") : n \in 0..MaxHist}
    ELSE IF v = "single"
    THEN {Body("POST", "undefined", <<>>, m) : m \in {"undefined", "", "hello"}}
    ELSE {Body(meth, "undefined", <<>>, m) : meth \in {"GET", "POST"}, m \in {"undefined", "hello"}}

AllBodies == UNION {Bodies(v) : v \in ChatVariants}

\* What the completion provider can answer: a reply, a reply without
\* content, an error object for an exhausted quota, another error object, a
\* JSON body with neither choices nor error, or a failed call (fetch or
\* .json() throws).  `error` is the provider's error text.
Answer(kind, content, error) == [kind |-> kind, content |-> content, error |-> error]

Answers ==
    {Answer("ok", "provider reply", ""), Answer("empty", "", ""),
     Answer("quota", "", "429 quota exceeded"), Answer("hard", "", "401 no auth"),
     Answer("malformed", "", ""), Answer("throw", "", "ECONNRESET")}

NoAnswer == Answer("none", "", "")

\* The completion calls of a handler that repeats a call.
CallsWithRetry(v) ==
    LET model == IF v = "deepseek" THEN "deepseek/deepseek-prover-v2"
                 ELSE IF v = "openai" THEN "gpt-4"
                 ELSE "meta-llama/llama-3.3-70b-instruct:free"
    IN  <<model, model>>

\* The model the variant asks for: its one completion backend.
Model(v) ==
    IF v = "deepseek" THEN "deepseek/deepseek-prover-v2"
    ELSE IF v = "openai" THEN "gpt-4"
    ELSE "meta-llama/llama-3.3-70b-instruct:free"

\* storeInfoSnippet() / storeInfoHtml(): each field, or its dash.
storeInfoSnippet(info) ==
    [k |-> "store-info", title |-> IF info = "facts" THEN "fields" ELSE "dashes",
     url |-> "", price |-> ""]

\* The product count of the system message: catalogLines.length, or the
\* number of "<li" matches in catalogHtml (0 when there is none).
ProductCount(v, cache) ==
    IF v = "deepseek" THEN Cardinality({i \in DOMAIN cache : cache[i].k = "li"})
    ELSE Len(cache)

Count(n) == [k |-> "count", title |-> ToString(n), url |-> "", price |-> ""]

\* The system message of the variant.
SystemMessage(v, cache, info) ==
    IF v = "deepseek"
    THEN Msg("system", "",
             <<Text("You are the RSH AI assistant"), Count(ProductCount(v, cache)),
               storeInfoSnippet(info), Text("Catalog HTML")>> \o cache
             \o <<Text("Instructions"),
                  Text(IF info = "facts" THEN "office hours" ELSE "undefined")>>)
    ELSE IF v \in {"md", "html"}
    THEN Msg("system", "",
             <<Text("You are a helpful assistant"), Count(ProductCount(v, cache)),
               storeInfoSnippet(info),
               Text(IF v = "md" THEN "Full Catalog" ELSE "Full Catalog, HTML job")>>)
    ELSE Msg("system", "", <<Text("You are a helpful assistant")>>)

\* The catalog message of "md" and "html": catalogLines.join("\n").
CatalogMsg(cache) == Msg("assistant", "catalog", cache)

\* The messages of the completion request, with a system message that was
\* built once, when the cache was still empty.
MessagesSystemBuiltOnce(v, cache, info, body) ==
    IF v = "deepseek" THEN <<SystemMessage(v, <<>>, info)>> \o body.messages
    ELSE IF v \in {"md", "html"}
    THEN <<SystemMessage(v, <<>>, info), CatalogMsg(cache)>> \o body.messages
    ELSE <<SystemMessage(v, <<>>, info), Msg("user", "", <<Text(body.message)>>)>>

\* The messages of the completion request, with only the newest message
\* of the conversation passed on.
MessagesLastOnly(v, cache, info, body) ==
    LET h == body.messages
        last == IF h = <<>> THEN <<>> ELSE <<h[Len(h)]>>
    IN  IF v = "deepseek" THEN <<SystemMessage(v, cache, info)>> \o last
        ELSE IF v \in {"md", "html"}
        THEN <<SystemMessage(v, cache, info), CatalogMsg(cache)>> \o last
        ELSE <<SystemMessage(v, cache, info), Msg("user", "", <<Text(body.message)>>)>>

\* The messages of the completion request, with the caller's newest text
\* written into the system message as well.
MessagesSystemEchoesUser(v, cache, info, body) ==
    LET sys == SystemMessage(v, cache, info)
        asked == IF v \in {"md", "html", "deepseek"}
                 THEN IF body.messages = <<>> THEN <<>>
                      ELSE body.messages[Len(body.messages)].content
                 ELSE <<Text(body.message)>>
        system == [sys EXCEPT !.content = @ \o asked]
    IN  IF v = "deepseek" THEN <<system>> \o body.messages
        ELSE IF v \in {"md", "html"}
        THEN <<system, CatalogMsg(cache)>> \o body.messages
        ELSE <<system, Msg("user", "", <<Text(body.message)>>)>>

\* The messages of the completion request.
Messages(v, cache, info, body) ==
    IF v = "deepseek" THEN <<SystemMessage(v, cache, info)>> \o body.messages
    ELSE IF v \in {"md", "html"}
    THEN <<SystemMessage(v, cache, info), CatalogMsg(cache)>> \o body.messages
    ELSE <<SystemMessage(v, cache, info), Msg("user", "", <<Text(body.message)>>)>>

\* A response: its status, the field of its body that carries text, the
\* handler's own fixed text, the provider's text put into that field, and
\* the provider's text put into `details`.
Response(status, field, fixed, echo, details) ==
    [status |-> status, field |-> field, fixed |-> fixed, echo |-> echo,
     details |-> details]

NoResponse == Response(0, "", "", "", "")

\* Validation: the response that rejects the request, or NoResponse when
\* the handler goes on to the completion call.
Rejection(v, key, body) ==
    IF v \in HistoryVariants
    THEN IF body.shape # "array" \/ Len(body.messages) = 0
         THEN Response(400, "error", "messages array required", "", "")
         ELSE IF ~key THEN Response(500, "error", "Missing OpenRouter API key", "", "")
         ELSE NoResponse
    ELSE IF v = "single"
    THEN IF ~key THEN Response(500, "error", "Missing OpenRouter API key.", "", "")
         ELSE IF body.message \in {"undefined", ""}
         THEN Response(400, "error", "No message provided.", "", "")
         ELSE NoResponse
    ELSE IF body.method # "POST" THEN Response(405, "error", "Only POST allowed", "", "")
         ELSE NoResponse

\* The fixed reply of the variant when the provider sent no content.
Apology(v) ==
    IF v = "md" THEN "Sorry, I couldn't generate a response right now."
    ELSE IF v = "html" THEN "<p>Sorry, no answer.</p>"
    ELSE IF v = "deepseek" THEN "<p>Sorry, no answer right now.</p>"
    ELSE IF v = "single" THEN "OpenRouter returned no reply."
    ELSE "Sorry, something went wrong."

\* The response to the provider's answer.
Outcome(v, ans) ==
    IF ans.kind = "throw"
    THEN IF v = "single" THEN Response(500, "error", "Server error", "", ans.error)
         ELSE IF v = "openai" THEN Response(500, "error", "Something went wrong.", "", "")
         ELSE Response(500, "error", "Server error", "", "")
    ELSE IF v = "deepseek" /\ ans.kind \in {"quota", "hard"}
    THEN Response(200, "reply", "<p>AI error: </p>", ans.error, "")
    ELSE IF ans.kind = "ok" THEN Response(200, "reply", "", ans.content, "")
    ELSE IF v = "single" THEN Response(502, "reply", Apology(v), "", "")
    ELSE Response(200, "reply", Apology(v), "", "")

\* What the handler logs about the provider's answer.
Logged(v, ans) ==
    IF ans.kind = "throw" THEN ans.error
    ELSE IF v = "single" THEN IF ans.kind = "ok" THEN ans.content ELSE ans.error
    ELSE IF v = "deepseek" /\ ans.kind \in {"quota", "hard"} THEN ans.error
    ELSE ""

\* The completion calls of one request: one awaited fetch, outside any loop.
Calls(v) == <<Model(v)>>

NoChat == [st |-> "idle", body |-> Body("", "undefined", <<>>, "undefined"),
           messages |-> <<>>, calls |-> <<>>, answer |-> NoAnswer,
           response |-> NoResponse, logged |-> "", sent |-> 0]

\* A request arrives and its handler runs to the await of the completion
\* call, or to the response that rejects it.
ChatArrives(body) ==
    /\ booted /\ alive
    /\ variant \in ChatVariants
    /\ chat.st \in {"idle", "done"}
    /\ body \in Bodies(variant)
    /\ LET rej == Rejection(variant, API_KEY, body)
       IN  chat' = IF rej # NoResponse
                   THEN [NoChat EXCEPT !.st = "done", !.body = body, !.response = rej,
                                       !.sent = 1]
                   ELSE [NoChat EXCEPT !.st = "awaiting", !.body = body,
                                       !.messages = Messages(variant, PublishedCache,
                                                             storeInfo, body),
                                       !.calls = Calls(variant)]
    /\ UNCHANGED <<variant, SHOPIFY_TOKEN, SHOPIFY_DOMAIN, API_KEY, booted, alive,
                   storeInfo, catalogLines, catalogHtml, catalogFile, runs, nruns,
                   pageRequests, lastDone>>

\* The completion provider answers; the handler sends its response.
ChatAnswer(ans) ==
    /\ alive
    /\ chat.st = "awaiting"
    /\ chat' = [chat EXCEPT !.st = "done", !.answer = ans,
                            !.response = Outcome(variant, ans),
                            !.logged = Logged(variant, ans),
                            !.sent = chat.sent + 1]
    /\ UNCHANGED <<variant, SHOPIFY_TOKEN, SHOPIFY_DOMAIN, API_KEY, booted, alive,
                   storeInfo, catalogLines, catalogHtml, catalogFile, runs, nruns,
                   pageRequests, lastDone>>

(* ------------------------------ behaviours ----------------------------- *)

Init ==
    /\ variant \in Variants
    /\ SHOPIFY_TOKEN \in BOOLEAN
    /\ SHOPIFY_DOMAIN \in BOOLEAN
    /\ API_KEY \in BOOLEAN
    /\ booted = FALSE
    /\ alive = TRUE
    /\ storeInfo = "empty"
    /\ catalogLines = <<>>
    /\ catalogHtml = <<>>
    /\ catalogFile = [written |-> FALSE, content |-> <<>>]
    /\ runs = [r \in RunIds |-> NoRun]
    /\ nruns = 0
    /\ pageRequests = 0
    /\ lastDone = [run |-> 0, seen |-> <<>>, pages |-> 0, reqs |-> 0]
    /\ chat = NoChat

\* The whole program.
Next ==
    \/ Boot(MaxPageRequests)
    \/ TimerFires(MaxRuns, MaxPageRequests)
    \/ \E r \in RunIds, ans \in PageAnswers : PageAnswer(r, ans, MaxPageRequests)
    \/ \E body \in AllBodies : ChatArrives(body)
    \/ \E ans \in Answers : ChatAnswer(ans)

Spec == Init /\ [][Next]_vars

\* The catalog sync alone: no /chat request arrives.  No /chat step writes
\* a variable the sync reads, so these are the sync's behaviours in Spec.
NextSync ==
    \/ Boot(SyncPageRequests)
    \/ TimerFires(SyncRuns, SyncPageRequests)
    \/ \E r \in RunIds, ans \in PageAnswers : PageAnswer(r, ans, SyncPageRequests)

SpecSync == Init /\ [][NextSync]_vars

\* The answers that end a run: a page whose hasNextPage is false, or a
\* failure.
SettlingAnswers == {ans \in PageAnswers : ans.kind # "page" \/ ~ans.hasNextPage}

\* The provider answers the page request of run r with one of them.
ProviderSettles(r) ==
    \E ans \in SettlingAnswers : PageAnswer(r, ans, FairPageRequests)

NextSyncFair ==
    \/ Boot(FairPageRequests)
    \/ TimerFires(FairRuns, FairPageRequests)
    \/ \E r \in RunIds, ans \in PageAnswers : PageAnswer(r, ans, FairPageRequests)

\* The catalog sync with a provider that does not answer every page
\* request of a run with "more pages" for ever.
SpecSyncFair ==
    Init /\ [][NextSyncFair]_vars /\ \A r \in RunIds : WF_vars(ProviderSettles(r))

(* ------------------------------- claims -------------------------------- *)

\* The entries a run publishes for the edges the provider sent it.
RenderAll(v, edges) == [i \in 1..Len(edges) |-> RenderEdge(v, edges[i])]

RunsInFlight == {r \in RunIds : InFlight(r)}

\* C1 (atomic publish): in every state, also while a fetch is suspended
\* between two page requests, the cache /chat reads is the initial empty
\* value as long as no fetch completed, and afterwards the complete result
\* of the last fetch that completed: never the pages an in-flight fetch has
\* collected so far.
C1_AtomicPublish ==
    variant \in CacheVariants =>
        IF lastDone.run = 0
        THEN PublishedCache = <<>>
        ELSE PublishedCache = PublishedValue(variant, RenderAll(variant, lastDone.seen))

\* A fetch is suspended between its first and second page request, holding
\* entries, while the cache holds the different, non-empty result of an
\* earlier fetch.
C1_Witness ==
    /\ variant \in CacheVariants
    /\ lastDone.run # 0 /\ lastDone.seen # <<>>
    /\ \E r \in RunIds :
          /\ InFlight(r) /\ runs[r].pages >= 1 /\ runs[r].out # <<>>
          /\ PublishedValue(variant, runs[r].out) # PublishedCache

\* C2 (single-flight sync): at every moment at most one catalog fetch run
\* is in progress; a timer that fires during a run starts no new run.
C2_SingleFlight == Cardinality(RunsInFlight) <= 1

\* C3 (failed fetch leaves the snapshot untouched): when a page request of
\* a run fails, on whichever page, the cache has exactly the value it had
\* before that run started.
C3_FailedFetchKeepsSnapshot ==
    [][\A r \in RunIds :
          (InFlight(r) /\ runs'[r].st = "failed")
              => PublishedCache' = runs[r].startCache]_vars

\* The faults that are the provider's: a failed call or an error payload.
ProviderFaults == {"network", "TypeError: json.data.products"}

\* C4 (pagination completeness): a run that the provider answers with pages
\* only is not abandoned, and a completed run has issued exactly one request
\* per page and has published one entry per returned edge, in the order of
\* the edges.
C4_PaginationCompleteness ==
    /\ \A r \in RunIds : runs[r].st = "failed" => runs[r].fault \in ProviderFaults
    /\ \A r \in RunIds : runs[r].st = "done" => runs[r].reqs = runs[r].pages
    /\ lastDone.run # 0 =>
          /\ lastDone.reqs = lastDone.pages
          /\ variant \in CacheVariants =>
                PublishedCache = PublishedValue(variant, RenderAll(variant, lastDone.seen))
          /\ variant = "export" =>
                catalogFile = [written |-> TRUE,
                               content |-> RenderAll(variant, lastDone.seen)]

\* The request is one the handler has to reject: no usable history (or, in
\* the single-turn variants, no message), or no API key.
InvalidRequest ==
    \/ ~API_KEY
    \/ variant \in HistoryVariants
          /\ (chat.body.shape # "array" \/ Len(chat.body.messages) = 0)
    \/ variant \in {"single", "openai"} /\ chat.body.message = "undefined"

\* C5 (fail-fast validation): a request without a non-empty history (or
\* message), or one that arrives without a configured API key, is rejected
\* with no call to the completion provider, in every handler variant.
C5_FailFast ==
    (chat.st # "idle" /\ InvalidRequest) => chat.calls = <<>>

\* C6 (no provider error leaks): whenever the completion call ends without
\* a reply with content, the response body is the handler's fixed text and
\* carries no text of the provider.
C6_NoProviderErrorLeak ==
    (chat.st = "done" /\ chat.answer.kind \notin {"none", "ok"}) =>
        /\ chat.response.fixed # ""
        /\ chat.response.echo = ""
        /\ chat.response.details = ""

\* C7 (graceful degradation): when the backend answers a valid request with
\* a quota-exhausted error, the response has status 200 and a non-empty
\* reply, never a 5xx status.
C7_QuotaDegradesGracefully ==
    (chat.st = "done" /\ chat.answer.kind = "quota") =>
        /\ chat.response.status = 200
        /\ chat.response.field = "reply"
        /\ (chat.response.fixed # "" \/ chat.response.echo # "")

\* C8 (fallback short-circuit): when the first backend answers with a
\* quota-exhausted error a second backend is called, and the first is called
\* once; when the first answers with a hard failure no second is called.
C8_FallbackShortCircuit ==
    chat.st = "done" =>
        /\ chat.answer.kind = "quota" =>
              /\ Len(chat.calls) = 2
              /\ chat.calls[1] # chat.calls[2]
        /\ chat.answer.kind = "hard" => Len(chat.calls) = 1

\* C9 (unconfigured sync is a no-op): without the storefront token or
\* without the store domain no page request is ever issued, every run that
\* was started has returned without an error, and the cache is unchanged;
\* this holds for the startup run and for the timer's runs.
C9_UnconfiguredSyncNoOp ==
    (variant \in CacheVariants /\ (~SHOPIFY_TOKEN \/ ~SHOPIFY_DOMAIN)) =>
        /\ pageRequests = 0
        /\ \A r \in RunIds : runs[r].st \in {"idle", "skipped"}
        /\ \A r \in RunIds : r <= nruns => runs[r].st = "skipped"
        /\ alive
        /\ PublishedCache = <<>>

\* One of the two settings is missing, and the startup run and a timer run
\* have both been through the guard.
C9_Witness ==
    /\ variant \in CacheVariants
    /\ SHOPIFY_TOKEN # SHOPIFY_DOMAIN
    /\ nruns >= 2
    /\ runs[1].trigger = "startup" /\ runs[1].st = "skipped"
    /\ runs[2].trigger = "timer" /\ runs[2].st = "skipped"

\* The count the system message of the request's payload states.
PayloadCount == chat.messages[1].content[2]

\* The catalog entries the request's payload carries.
IsEntry(part) == part.k \in {"bullet", "li"}
PayloadEntries ==
    IF variant = "deepseek" THEN SelectSeq(chat.messages[1].content, IsEntry)
    ELSE chat.messages[2].content

\* The catalog content of the request's payload, as the cache held it.
IsMarkup(part) == part.k \in {"li", "ol-open", "ol-close"}
PayloadCatalog ==
    IF variant = "deepseek" THEN SelectSeq(chat.messages[1].content, IsMarkup)
    ELSE chat.messages[2].content

\* C10 (snapshot consistency per request): the product count and the
\* catalog content of one request's completion payload come from the same
\* snapshot: the count is the number of entries of the content, whatever a
\* fetch run publishes before, during or after the provider call.
C10_OneSnapshotPerRequest ==
    (chat.st = "awaiting" /\ variant \in HistoryVariants) =>
        PayloadCount = Count(Len(PayloadEntries))

\* The request waits for the provider with a non-empty catalog in its
\* payload, and a run has published another snapshot since.
C10_Witness ==
    /\ chat.st = "awaiting" /\ variant \in HistoryVariants
    /\ PayloadEntries # <<>>
    /\ PayloadCatalog # PublishedCache

\* C11 (failed sync is retried): after a startup or timer run was abandoned
\* on a provider failure the process is still running, so that the next
\* timer tick can start a new run, and the cache still holds the last
\* published snapshot.
C11_FailedSyncKeepsProcess ==
    \A r \in RunIds :
        (runs[r].st = "failed" /\ runs[r].fault \in ProviderFaults
            /\ runs[r].trigger \in {"startup", "timer"}) =>
            /\ alive
            /\ variant \in CacheVariants =>
                  PublishedCache =
                      IF lastDone.run = 0 THEN <<>>
                      ELSE PublishedValue(variant, RenderAll(variant, lastDone.seen))

\* The cap K on injected catalog entries that C12 is about.  K is a
\* setting of the deployment; the catalogs here have up to MaxEdges entries
\* a page, so a cap below that is one a snapshot can exceed.
CatalogCap == 1

\* C12 (injected catalog is bounded): the number of catalog entries in the
\* payload of one completion request never exceeds the cap, however many
\* products the snapshot holds.
C12_InjectedCatalogBounded ==
    (chat.st = "awaiting" /\ variant \in HistoryVariants) =>
        Len(PayloadEntries) <= CatalogCap

\* The number of messages the handler puts before the conversation: the
\* system message, and in "md" and "html" the catalog message.
Prepended == IF variant = "deepseek" THEN 1 ELSE 2

\* C13 (history passed through intact): the messages sent to the provider
\* are the handler's own messages followed by exactly the messages of the
\* request's conversation, in the same order, none dropped, added or
\* altered.
C13_HistoryPassedThrough ==
    (chat.st \in {"awaiting", "done"} /\ chat.calls # <<>>
        /\ variant \in HistoryVariants) =>
        LET sent == chat.messages
            h == chat.body.messages
        IN  /\ Len(sent) = Prepended + Len(h)
            /\ SubSeq(sent, Prepended + 1, Len(sent)) = h
            /\ \A i \in 1..Prepended :
                   sent[i].role = "system" \/ sent[i].name = "catalog"

\* A conversation of several turns has gone to the provider.
C13_Witness ==
    /\ chat.st = "awaiting" /\ variant \in HistoryVariants
    /\ Len(chat.body.messages) >= 2
    /\ chat.body.messages[1] # chat.body.messages[2]

\* The marker that tells the model that no products are available.
NoProductsMarker == Text("no products available")

\* Every part of every message of the request's payload.
PayloadParts ==
    UNION {Range(chat.messages[i].content) : i \in DOMAIN chat.messages}

\* C14 (chat never waits for the catalog): a valid request reaches its
\* completion call whatever the fetch runs are doing, and when the snapshot
\* is empty its payload carries an explicit no-products-available marker.
C14_EmptySnapshotMarked ==
    (chat.st = "awaiting" /\ variant \in HistoryVariants
        /\ PublishedCache = <<>> /\ Len(PayloadEntries) = 0) =>
        NoProductsMarker \in PayloadParts

\* The request bodies of the variant that pass validation.
ValidBodies(v) == {b \in Bodies(v) : Rejection(v, TRUE, b) = NoResponse}

\* C15 (system message independent of the request): the system message a
\* request gets is the one every other valid request gets in the same cache
\* and store-facts state; nothing of the request body is in it.
C15_SystemMessageIndependent ==
    [][(chat'.st = "awaiting" /\ chat' # chat) =>
          \A other \in ValidBodies(variant) :
              chat'.messages[1] =
                  Messages(variant, PublishedCache, storeInfo, other)[1]]_vars

\* A request with a conversation of its own waits for the provider, with
\* catalog and store facts in the system message's state.
C15_Witness ==
    /\ chat.st = "awaiting"
    /\ chat.body \in ValidBodies(variant)
    /\ Cardinality(ValidBodies(variant)) >= 2
    /\ chat.messages[1].role = "system"
    /\ storeInfo = "facts"
    /\ variant \in HistoryVariants => PayloadEntries # <<>>

\* C16 (cursor protocol): the first page request of a run carries the null
\* cursor and every later one the cursor of the last edge of the response
\* before it; the run keeps requesting while the responses' flag is true
\* and stops at the first response whose flag is false, whatever the pages
\* hold, pages without edges included.
C16_CursorProtocol ==
    \A r \in RunIds :
        /\ (InFlight(r) /\ runs[r].pages = 0) => runs[r].after = "null"
        /\ (InFlight(r) /\ runs[r].pages > 0 /\ runs[r].seen # <<>>) =>
               runs[r].after = Edge(runs[r].seen[Len(runs[r].seen)]).cursor
        /\ (runs[r].flag = "true" /\ runs[r].fault \notin ProviderFaults) =>
               InFlight(r)
        /\ runs[r].flag = "false" => runs[r].st = "done"

\* C17 (single-writer discipline): the catalog cache changes only in the
\* step that ends a fetch run with its last page, the store facts change
\* only in the start-up step, and no step of a /chat handler changes
\* either, on its success path or on any of its error paths.
C17_SingleWriter ==
    [][/\ (catalogLines' # catalogLines \/ catalogHtml' # catalogHtml) =>
              \E r \in RunIds : InFlight(r) /\ runs'[r].st = "done"
       /\ storeInfo' # storeInfo => (~booted /\ booted')
       /\ chat' # chat =>
              /\ catalogLines' = catalogLines /\ catalogHtml' = catalogHtml
              /\ storeInfo' = storeInfo]_vars

\* A handler has been through its error path, after the provider call
\* threw, with a published catalog and loaded store facts in place.
C17_Witness ==
    /\ chat.st = "done" /\ chat.answer.kind = "throw"
    /\ chat.response.status = 500
    /\ PublishedCache # <<>>
    /\ storeInfo = "facts"

\* A step in which run r receives its last page and publishes.
Publishes(r) == InFlight(r) /\ runs'[r].st = "done"

\* What a step does to the cache of a variant that has one.
PublishStep ==
    /\ \A r \in RunIds :
           Publishes(r) =>
               /\ lastDone'.run = r
               /\ \E edges \in DistinctSeqs(Products, MaxEdges) :
                      /\ lastDone'.seen = runs[r].seen \o edges
                      /\ PublishedCache' =
                             PublishedValue(variant,
                                 RenderAll(variant, runs[r].seen \o edges))
    /\ (\A r \in RunIds : ~Publishes(r)) => PublishedCache' = PublishedCache

\* C18 (per-run isolation): a run publishes what it has accumulated itself,
\* the pages it received and nothing of a run that overlaps it, and the
\* published snapshot stays until the next run completes, so that it is
\* always the one of the run that completed last.
C18_PerRunIsolation == [][(variant \in CacheVariants) => PublishStep]_vars

\* The second run has published while the first, started before it, is
\* still in flight with entries of its own.
C18_Witness ==
    /\ variant \in CacheVariants
    /\ lastDone.run = 2 /\ lastDone.seen # <<>>
    /\ PublishedCache # <<>>
    /\ InFlight(1) /\ runs[1].out # <<>>

\* The statuses a /chat handler answers with.
ChatStatuses == {200, 400, 405, 500, 502}

\* C19 (one response and at most one provider call per request): on every
\* path of a handler, the path where the provider call throws included, the
\* handler sends exactly one response, with one of the handlers' statuses,
\* none while it waits for the provider, and it makes at most one
\* completion call, without a retry.
C19_OneResponseOneCall ==
    /\ chat.st = "done" =>
           /\ chat.sent = 1
           /\ chat.response # NoResponse
           /\ chat.response.status \in ChatStatuses
    /\ chat.st = "awaiting" =>
           /\ chat.sent = 0
           /\ chat.response = NoResponse
           /\ Len(chat.calls) = 1
    /\ Len(chat.calls) <= 1
    /\ (chat.st = "done" /\ chat.answer = NoAnswer) => chat.calls = <<>>

\* The provider call threw, and the handler has answered once, from its
\* catch block, after its one call.
C19_Witness ==
    /\ chat.st = "done" /\ chat.sent = 1
    /\ chat.answer.kind = "throw"
    /\ Len(chat.calls) = 1

\* A step in which run r receives a page whose continuation flag is false.
LastPageArrives(r) ==
    InFlight(r) /\ runs'[r].pages = runs[r].pages + 1 /\ runs'[r].flag = "false"

\* C20 (fetch termination): with a provider that eventually answers a
\* page request of the run with a false continuation flag or a failure, a
\* run that has sent a page request ends, published or failed; the
\* response with the false flag ends it, and it publishes in no step but
\* that one.
C20_FetchTerminates ==
    /\ \A r \in RunIds : (InFlight(r) /\ alive) ~> (~InFlight(r) \/ ~alive)
    /\ [][\A r \in RunIds :
              /\ LastPageArrives(r) => Publishes(r)
              /\ Publishes(r) => LastPageArrives(r)]_vars

\* A run has published after more than one page: it went round the loop on
\* a true flag and ended on the false one.
C20_Witness ==
    \E r \in RunIds :
        /\ runs[r].st = "done" /\ runs[r].flag = "false"
        /\ runs[r].pages >= 2
        /\ lastDone.run = r

====
